---- MODULE Spec2Model ----
(***************************************************************************)
(* Model of app.py, a Streamlit chat front-end for a school principal.     *)
(* One step of the model is one complete run of main() (Streamlit reruns   *)
(* the whole script on every widget event); the session state lives in     *)
(* st.session_state between runs.                                          *)
(***************************************************************************)
EXTENDS Integers, Sequences, FiniteSets, TLC

VARIABLES
    messages,        \* st.session_state.messages: sequence of [role, content]
    language,        \* st.session_state.language
    model,           \* st.session_state.model
    temperature,     \* st.session_state.temperature, in hundredths
    max_tokens,      \* st.session_state.max_tokens
    pending_prompt,  \* st.session_state.pending_prompt
    api_key,         \* os.environ.get("OPENAI_API_KEY"): None or Some(text)
    form,            \* widget values of the form "form_surat_edaran"
    event,           \* the widget event that triggered the last run of main()
    before,          \* messages as they were when the last run started
    prefill,         \* render_chat's local prefill in the last run
    user_input,      \* render_chat's local user_input in the last run
    requests,        \* calls of client.chat.completions.create in the last run
    outcome,         \* how the completion call of the last run ended
    warning,         \* whether the last run showed the missing-key st.warning
    escaped,         \* whether an exception left render_chat in the last run
    transcript       \* data of the download button in the last run

vars == <<messages, language, model, temperature, max_tokens, pending_prompt,
          api_key, form, event, before, prefill, user_input, requests,
          outcome, warning, escaped, transcript>>

\* ------------------------------------------------------------------ bounds
\* Most user turns one conversation holds before the model stops adding turns.
MaxTurns == 2

\* ------------------------------------------------------- optional values
\* Python's None and a present value.
None == <<>>
Some(v) == <<v>>

\* bool(x) for an optional text: None and "" are falsy.
Truthy(opt) == opt # None /\ opt[1] # ""

\* ---------------------------------------------------------- text helpers
\* sep.join(parts) for a sequence of texts.
RECURSIVE Join(_, _)
Join(parts, sep) ==
    IF parts = <<>> THEN ""
    ELSE IF Len(parts) = 1 THEN parts[1]
    ELSE parts[1] \o sep \o Join(Tail(parts), sep)

UpperChars == "ABCDEFGHIJKLMNOPQRSTUVWXYZ"
LowerChars == "abcdefghijklmnopqrstuvwxyz"

\* str.lower() of one character.
LowerChar(c) ==
    IF \E i \in 1..Len(UpperChars) : SubSeq(UpperChars, i, i) = c
    THEN LET i == CHOOSE j \in 1..Len(UpperChars) : SubSeq(UpperChars, j, j) = c
         IN SubSeq(LowerChars, i, i)
    ELSE c

\* str.lower().
RECURSIVE Lower(_)
Lower(s) ==
    IF s = "" THEN ""
    ELSE LowerChar(SubSeq(s, 1, 1)) \o Lower(SubSeq(s, 2, Len(s)))

Digits == "0123456789"

\* The decimal digits of n, left-padded with zeros to the given width.
RECURSIVE ZeroPad(_, _)
ZeroPad(n, width) ==
    IF width = 0 THEN ""
    ELSE ZeroPad(n \div 10, width - 1) \o SubSeq(Digits, (n % 10) + 1, (n % 10) + 1)

\* str(date): ISO format YYYY-MM-DD of a date <<year, month, day>>.
DateStr(d) == ZeroPad(d[1], 4) \o "-" \o ZeroPad(d[2], 2) \o "-" \o ZeroPad(d[3], 2)

\* ---------------------------------------------------------- system prompt
build_system_prompt(lang) ==
    IF lang = "en"
    THEN "You are an AI advisor assisting a high school principal in Indonesia. "
         \o "Goals: provide practical, concise, and actionable guidance on school management, curriculum planning, teacher development, "
         \o "student affairs, school operations, parent/community communications, and event planning. "
         \o "Constraints: do not fabricate facts or legal references; when unsure, say so and suggest how to verify. "
         \o "Default response is concise with bullet points and step-by-step actions. "
         \o "Provide templates (letters, schedules, memos) with placeholders and clear instructions. "
         \o "If the user asks, you can switch to Indonesian or bilingual output. "
         \o "Tone: respectful, professional, supportive, and solution-oriented."
    ELSE "Anda adalah asisten AI yang membantu kepala sekolah menengah atas di Indonesia. "
         \o "Tujuan: berikan panduan yang praktis, ringkas, dan dapat ditindaklanjuti terkait manajemen sekolah, perencanaan kurikulum, "
         \o "pengembangan guru, kesiswaan, operasional, komunikasi orang tua/komite, dan perencanaan kegiatan. "
         \o "Batasan: jangan mengada-ada fakta atau dasar hukum; jika ragu, sampaikan dengan jujur dan sarankan cara memverifikasi. "
         \o "Default jawaban: ringkas, dengan poin-poin dan langkah-langkah. "
         \o "Sediakan template (surat, jadwal, memo) dengan placeholder dan instruksi yang jelas. "
         \o "Jika diminta, Anda dapat menggunakan bahasa Inggris atau keluaran dwibahasa. "
         \o "Nada: hormat, profesional, suportif, dan berorientasi solusi."

\* ------------------------------------------------------ prompt templates
BilingualNote == "Tulis bilingual (Indonesia dan Inggris) dengan dua bagian terpisah dan konsisten."
IndonesianNote == "Gunakan Bahasa Indonesia yang jelas dan formal."

\* Mutant: the language note is chosen the wrong way round.
build_prompt_surat_edaran_swapped(topik, audiens, tanggal, penandatangan, gaya, bilingual) ==
    LET lang_note == IF bilingual THEN IndonesianNote ELSE BilingualNote
    IN  "Susun draf Surat Edaran sekolah tentang '" \o topik \o "'.\n"
        \o "- Audiens: " \o audiens \o "\n"
        \o "- Tanggal: " \o tanggal \o "\n"
        \o "- Penandatangan: " \o penandatangan \o "\n"
        \o "- Gaya bahasa: " \o gaya \o "\n"
        \o "- " \o lang_note \o "\n"
        \o "Strukturkan: Kop/Identitas, Nomor, Perihal, Salam pembuka, Isi utama (tujuan, rincian, waktu/tempat jika ada), "
        \o "Instruksi/harapan, Penutup, Tanda tangan, Tembusan (jika perlu). "
        \o "Sertakan placeholder yang jelas untuk nomor surat, lampiran, dan kontak."

build_prompt_surat_edaran(topik, audiens, tanggal, penandatangan, gaya, bilingual) ==
    LET lang_note == IF bilingual THEN BilingualNote ELSE IndonesianNote
    IN  "Susun draf Surat Edaran sekolah tentang '" \o topik \o "'.\n"
        \o "- Audiens: " \o audiens \o "\n"
        \o "- Tanggal: " \o tanggal \o "\n"
        \o "- Penandatangan: " \o penandatangan \o "\n"
        \o "- Gaya bahasa: " \o gaya \o "\n"
        \o "- " \o lang_note \o "\n"
        \o "Strukturkan: Kop/Identitas, Nomor, Perihal, Salam pembuka, Isi utama (tujuan, rincian, waktu/tempat jika ada), "
        \o "Instruksi/harapan, Penutup, Tanda tangan, Tembusan (jika perlu). "
        \o "Sertakan placeholder yang jelas untuk nomor surat, lampiran, dan kontak."

build_prompt_rks(periode, fokus, indikator) ==
    "Buat RKS/RKAS ringkas untuk tingkat SMA dengan format tabel/poin yang mudah dipahami.\n"
    \o "- Periode: " \o periode \o "\n"
    \o "- Fokus Program:\n" \o fokus \o "\n"
    \o "- Indikator Keberhasilan (opsional):\n" \o indikator \o "\n"
    \o "Cantumkan: tujuan, kegiatan utama, PIC, timeline, kebutuhan sumber daya/anggaran (perkiraan), indikator & cara evaluasi, risiko & mitigasi. "
    \o "Gunakan placeholder untuk angka anggaran dan sesuaikan dengan regulasi sekolah."

build_prompt_jadwal(jenis, kondisi) ==
    "Susun " \o Lower(jenis) \o " untuk SMA. "
    \o "Berikan langkah penyusunan, asumsi, dan keluaran akhir berupa tabel/poin yang rapi. "
    \o "Pertimbangkan ketentuan berikut (jika relevan):\n" \o kondisi \o "\n"
    \o "Sertakan catatan tentang cara menyesuaikan jika terjadi konflik jadwal."

\* ------------------------------------------------- session state helpers
DefaultTemperature == 30
DefaultMaxTokens == 800

\* Mutant: the new entry is put in front of the list.
add_message_prepend(msgs, role, content) ==
    <<[role |-> role, content |-> content]>> \o msgs

add_message(msgs, role, content) ==
    Append(msgs, [role |-> role, content |-> content])

\* Mutant: the reset drops only the last entry.
clear_conversation_last(msgs) ==
    IF msgs = <<>> THEN <<>> ELSE SubSeq(msgs, 1, Len(msgs) - 1)

clear_conversation(msgs) == <<>>

\* ------------------------------------------------------- OpenAI gateway
\* Mutant: a key that is set but empty counts as present.
api_key_exists_not_none(key) == key # None

\* bool(os.environ.get("OPENAI_API_KEY"))
api_key_exists(key) == Truthy(key)

get_openai_client == Some("OpenAI")

\* The client main() hands to render_chat.
ClientFor(key) == IF api_key_exists(key) THEN get_openai_client ELSE None

\* Mutant: the whole list, the just-added user entry included, is the history.
HistoryAll(msgs) == msgs

\* messages[:-1], the history argument render_chat passes.
History(msgs) == SubSeq(msgs, 1, Len(msgs) - 1)

\* ask_openai: system + history + latest user input.
ComposeMessages(system_prompt, history, text) ==
    Append(<<[role |-> "system", content |-> system_prompt]>> \o history,
           [role |-> "user", content |-> text])

\* The keyword arguments of client.chat.completions.create.
Request(mdl, system_prompt, history, text, temp, maxtok) ==
    [model |-> mdl,
     messages |-> ComposeMessages(system_prompt, history, text),
     temperature |-> temp,
     max_tokens |-> maxtok]

\* Results of the external call: a reply, or a raised exception.
Reply(text) == [kind |-> "ok", cls |-> "", text |-> text]
Raise(cls, msg) == [kind |-> "raise", cls |-> cls, text |-> msg]

\* Mutant: a failed call is issued a second time.
CallsRetried(request, result) ==
    IF result.kind = "raise" THEN <<request, request>> ELSE <<request>>

\* The calls ask_openai issues for one turn: one, whatever its result.
Calls(request, result) == <<request>>

\* Exception classes the turn can raise; all derive from Exception.
ExceptionSubclasses == {"RuntimeError", "APITimeoutError", "AuthenticationError"}

\* Mutant: only the handler's own RuntimeError is caught.
CatchesRuntimeErrorOnly(cls) == cls = "RuntimeError"

\* except Exception as e
Catches(cls) == cls \in ExceptionSubclasses

error_text(msg) == "Terjadi kesalahan saat memanggil model: " \o msg

ClientMissing == Raise("RuntimeError", "OpenAI client is not initialized. Set OPENAI_API_KEY.")

\* ----------------------------------------------------- transcript export
\* Mutant: the blocks are joined without the separating newline.
TranscriptUnseparated(msgs) ==
    Join([i \in 1..Len(msgs) |->
            (IF msgs[i].role = "user" THEN "USER" ELSE "ASSISTANT")
            \o ":\n" \o msgs[i].content \o "\n"], "")

\* The data of the download button for a non-empty conversation.
Transcript(msgs) ==
    Join([i \in 1..Len(msgs) |->
            (IF msgs[i].role = "user" THEN "USER" ELSE "ASSISTANT")
            \o ":\n" \o msgs[i].content \o "\n"], "\n")

\* ------------------------------------------------------------ use prompt
\* Mutant: the pending prompt is used but not cleared.
UsePromptKept(pf) == [user_input |-> Some(pf), pending_prompt |-> pf]

\* The body of "if st.button('Gunakan Prompt di atas')" when clicked.
UsePrompt(pf) == [user_input |-> Some(pf), pending_prompt |-> ""]

\* ------------------------------------------------------------ input sets
\* Sidebar widget values <<language, model, temperature, max_tokens>> a user
\* sets: the defaults and two other combinations.
SidebarValues ==
    {<<"id", "gpt-4", DefaultTemperature, DefaultMaxTokens>>,
     <<"en", "gpt-4", DefaultTemperature, DefaultMaxTokens>>,
     <<"en", "gpt-3.5-turbo", 100, 256>>}

\* Values of the environment variable: unset, set but empty, set.
ApiKeys == {None, Some(""), Some("sk-test")}

\* Texts typed into st.chat_input.
ChatInputs == {"Hi"}

\* What the external completion API can do with a request.
Results == {Reply("Hello"),
            Raise("APITimeoutError", "Request timed out."),
            Raise("AuthenticationError", "")}

DefaultForm ==
    [topik |-> "Informasi Ujian Akhir Semester",
     audiens |-> "Orang Tua/Wali Siswa",
     tanggal |-> <<2025, 6, 1>>,
     penandatangan |-> "Kepala Sekolah",
     gaya |-> "Formal",
     bilingual |-> FALSE]

\* Form values submitted during a chat session.
SessionForms == {DefaultForm}

\* Form values the template function is applied to on its own.
TemplateForms ==
    [topik : {"UAS", "Informasi Ujian Akhir Semester"},
     audiens : {"Orang Tua", "Orang Tua/Wali Siswa"},
     tanggal : {<<2025, 6, 1>>, <<2024, 12, 25>>},
     penandatangan : {"Budi", "Kepala Sekolah"},
     gaya : {"Formal", "Semi-formal"},
     bilingual : BOOLEAN]

SuratEdaranPrompt(f) ==
    build_prompt_surat_edaran(f.topik, f.audiens, DateStr(f.tanggal),
                              f.penandatangan, f.gaya, f.bilingual)

RksPeriode == "Juli-Desember 2025"
RksFokus == "Peningkatan Literasi\nPenguatan Projek P5\nPengembangan Kompetensi Guru\nPerbaikan Sarana/Prasarana"
RksIndikator == "Nilai literasi meningkat 10%\nMinimal 2 pelatihan guru per semester\nKetersediaan perpustakaan digital"

JadwalJenis == {"Jadwal Piket"}
JadwalKondisi == "Prioritaskan pemerataan beban mengajar.\nPerhatikan sertifikasi dan keahlian guru.\nHindari bentrok dengan jadwal wali kelas."

\* -------------------------------------------------------- one run of main
\* One run of main() with the widget values of this run: the sidebar values,
\* whether the reset button was clicked, the prompt a submitted template form
\* built (None if no form was submitted), the submitted chat text (None if
\* none), whether the use-prompt button was clicked, the form values, and what
\* the external API does if it is called.
Main(ev, lang, mdl, temp, maxtok, reset, template, chat, click, frm, result) ==
    LET \* sidebar_controls
        m1 == IF reset THEN clear_conversation(messages) ELSE messages
        \* template_builder
        p1 == IF template # None THEN template[1] ELSE pending_prompt
        \* main: the client
        client == ClientFor(api_key)
        \* render_chat: prefill and the use-prompt button
        pf == IF p1 # "" THEN p1 ELSE ""
        used == pf # "" /\ ~Truthy(chat) /\ click
        ui == IF used THEN UsePrompt(pf).user_input ELSE chat
        p2 == IF used THEN UsePrompt(pf).pending_prompt ELSE p1
        \* render_chat: the turn
        turn == Truthy(ui)
        m2 == IF turn THEN add_message(m1, "user", ui[1]) ELSE m1
        called == turn /\ client # None
        request == Request(mdl, build_system_prompt(lang), History(m2), ui[1],
                           temp, maxtok)
        res == IF client = None THEN ClientMissing ELSE result
        caught == res.kind = "raise" /\ Catches(res.cls)
        m3 == IF ~turn THEN m2
              ELSE IF res.kind = "ok" THEN add_message(m2, "assistant", res.text)
              ELSE IF caught THEN add_message(m2, "assistant", error_text(res.text))
              ELSE m2
        esc == turn /\ res.kind = "raise" /\ ~caught
    IN  /\ language' = lang
        /\ model' = mdl
        /\ temperature' = temp
        /\ max_tokens' = maxtok
        /\ form' = frm
        /\ messages' = m3
        /\ pending_prompt' = p2
        /\ event' = ev
        /\ before' = messages
        /\ prefill' = pf
        /\ user_input' = ui
        /\ requests' = IF called THEN Calls(request, res) ELSE <<>>
        /\ outcome' = IF turn THEN res.kind ELSE "none"
        /\ warning' = ~api_key_exists(api_key)
        /\ escaped' = esc
        /\ transcript' = IF ~esc /\ m3 # <<>> THEN Some(Transcript(m3)) ELSE None
        /\ UNCHANGED api_key

\* A run with no widget event except the ones given.
Rerun(ev, reset, template, chat, click, frm, result) ==
    Main(ev, language, model, temperature, max_tokens, reset, template, chat,
         click, frm, result)

\* The conversation has room for one more turn.
RoomForTurn == Len(messages) < 2 * MaxTurns

\* ---------------------------------------------------------------- actions
\* The user changes a sidebar widget (language, model, temperature, length).
ChangeSettings ==
    \E v \in SidebarValues :
        /\ v # <<language, model, temperature, max_tokens>>
        /\ Main("settings", v[1], v[2], v[3], v[4], FALSE, None, None, FALSE,
                form, Reply(""))

\* The user clicks "Mulai Percakapan Baru".
ClickReset ==
    Rerun("reset", TRUE, None, None, FALSE, form, Reply(""))

\* The user submits the form "form_surat_edaran".
SubmitSuratEdaran ==
    \E f \in SessionForms :
        Rerun("surat_edaran", FALSE, Some(SuratEdaranPrompt(f)), None, FALSE, f,
              Reply(""))

\* The user submits the form "form_rks".
SubmitRks ==
    Rerun("rks", FALSE, Some(build_prompt_rks(RksPeriode, RksFokus, RksIndikator)),
          None, FALSE, form, Reply(""))

\* The user submits the form "form_jadwal".
SubmitJadwal ==
    \E jenis \in JadwalJenis :
        Rerun("jadwal", FALSE, Some(build_prompt_jadwal(jenis, JadwalKondisi)),
              None, FALSE, form, Reply(""))

\* The user submits a text in st.chat_input.
SubmitChat ==
    /\ RoomForTurn
    /\ \E text \in ChatInputs, result \in Results :
        Rerun("chat", FALSE, None, Some(text), FALSE, form, result)

\* The user clicks "Gunakan Prompt di atas", rendered only for a pending prompt.
ClickUsePrompt ==
    /\ RoomForTurn
    /\ pending_prompt # ""
    /\ \E result \in Results :
        Rerun("use", FALSE, None, None, TRUE, form, result)

\* The state after init_session_state and the first run of main().
Init ==
    /\ messages = <<>>
    /\ language = "id"
    /\ model = "gpt-4"
    /\ temperature = DefaultTemperature
    /\ max_tokens = DefaultMaxTokens
    /\ pending_prompt = ""
    /\ api_key \in ApiKeys
    /\ form = DefaultForm
    /\ event = "load"
    /\ before = <<>>
    /\ prefill = ""
    /\ user_input = None
    /\ requests = <<>>
    /\ outcome = "none"
    /\ warning = ~api_key_exists(api_key)
    /\ escaped = FALSE
    /\ transcript = None

Next ==
    \/ ChangeSettings
    \/ ClickReset
    \/ SubmitSuratEdaran
    \/ SubmitRks
    \/ SubmitJadwal
    \/ SubmitChat
    \/ ClickUsePrompt

Spec == Init /\ [][Next]_vars

\* ------------------------------------------- the template function alone
\* The form "form_surat_edaran" holds any of the template inputs.
TemplateInit ==
    /\ messages = <<>>
    /\ language = "id"
    /\ model = "gpt-4"
    /\ temperature = DefaultTemperature
    /\ max_tokens = DefaultMaxTokens
    /\ pending_prompt = ""
    /\ api_key \in ApiKeys
    /\ form \in TemplateForms
    /\ event = "load"
    /\ before = <<>>
    /\ prefill = ""
    /\ user_input = None
    /\ requests = <<>>
    /\ outcome = "none"
    /\ warning = ~api_key_exists(api_key)
    /\ escaped = FALSE
    /\ transcript = None

\* The user submits the form with the values it holds.
SubmitForm ==
    Rerun("surat_edaran", FALSE, Some(SuratEdaranPrompt(form)), None, FALSE, form,
          Reply(""))

TemplateNext == SubmitForm

TemplateSpec == TemplateInit /\ [][TemplateNext]_vars

\* ================================================================= claims
TemplateEvents == {"surat_edaran", "rks", "jadwal"}

IsPrefix(s, t) == Len(s) <= Len(t) /\ SubSeq(t, 1, Len(s)) = s

\* sub occurs in s.
Contains(s, sub) ==
    \E i \in 1..(Len(s) - Len(sub) + 1) : SubSeq(s, i, i + Len(sub) - 1) = sub

UserEntry(text) == [role |-> "user", content |-> text]

ErrorPrefix == "Terjadi kesalahan saat memanggil model: "

\* A key that is unset, or set to the empty text.
KeyAbsent == api_key = None \/ api_key = Some("")

\* C1: in every run that is not a reset (chat submission with a reply or a
\* failure, use of a pending prompt, template submission, settings change) the
\* messages the run started with are a prefix of the messages it leaves, and
\* what a turn adds is the user entry followed by the assistant entry, in the
\* order of the add_message calls.
C1_AppendOnly ==
    event # "reset" =>
        /\ IsPrefix(before, messages)
        /\ Truthy(user_input) =>
            /\ Len(messages) = Len(before) + 2
            /\ messages[Len(before) + 1].role = "user"
            /\ messages[Len(before) + 2].role = "assistant"
        /\ ~Truthy(user_input) => messages = before

\* A second turn was appended behind an earlier one.
C1_Witness ==
    /\ event = "chat"
    /\ Len(before) = 2
    /\ Len(messages) = 4
    /\ SubSeq(messages, 1, 2) = before

\* C2: a turn whose completion call raises leaves exactly one new assistant
\* entry behind the turn's user entry, with a non-empty error text, and the
\* exception does not leave render_chat; a submission made after a failed turn
\* is a normal turn (user entry, then one assistant entry).
C2_FailureBecomesEntry ==
    /\ outcome = "raise" =>
        /\ ~escaped
        /\ Len(messages) = Len(before) + 2
        /\ IsPrefix(before, messages)
        /\ messages[Len(before) + 1] = UserEntry(user_input[1])
        /\ messages[Len(before) + 2].role = "assistant"
        /\ messages[Len(before) + 2].content # ""
        /\ Contains(messages[Len(before) + 2].content, ErrorPrefix)
    /\ (/\ Truthy(user_input)
        /\ \E i \in 1..Len(before) :
              /\ before[i].role = "assistant"
              /\ Contains(before[i].content, ErrorPrefix)) =>
        /\ ~escaped
        /\ Len(messages) = Len(before) + 2
        /\ messages[Len(before) + 1] = UserEntry(user_input[1])
        /\ messages[Len(before) + 2].role = "assistant"

\* The API raised an exception with an empty message in the first turn, and
\* the next submission got its reply.
C2_Witness ==
    /\ Len(before) = 2
    /\ before[2] = [role |-> "assistant", content |-> ErrorPrefix]
    /\ outcome = "ok"
    /\ requests # <<>>
    /\ Len(messages) = 4
    /\ messages[4] = [role |-> "assistant", content |-> "Hello"]

C4_NoKeyNoCall ==
    KeyAbsent => requests = <<>> /\ warning

\* Two submissions were made without a key; neither reached the API.
C4_Witness ==
    /\ api_key = None
    /\ event = "chat"
    /\ Len(messages) = 4
    /\ requests = <<>>
    /\ warning

C6_OneCallPerTurn ==
    /\ Len(requests) <= 1
    /\ Truthy(user_input) => Len(requests) = (IF KeyAbsent THEN 0 ELSE 1)
    /\ ~Truthy(user_input) => requests = <<>>
    /\ outcome = "raise" /\ ~KeyAbsent => Len(requests) = 1

\* A call failed and was the only call of its run.
C6_Witness ==
    /\ outcome = "raise"
    /\ ~KeyAbsent
    /\ Len(requests) = 1

\* C7: a reset leaves messages empty whatever they were, and a submission
\* made on an empty conversation becomes its first entry.
C7_Reset ==
    /\ event = "reset" => messages = <<>>
    /\ Truthy(user_input) /\ before = <<>> => messages[1] = UserEntry(user_input[1])

\* A full conversation was reset.
C7_Witness ==
    /\ event = "reset"
    /\ Len(before) = 2 * MaxTurns
    /\ messages = <<>>

RoleLabel(role) ==
    CASE role = "user" -> "USER"
      [] role = "assistant" -> "ASSISTANT"

\* The export the specification describes: a block per message, one empty
\* line between blocks.
RECURSIVE ExportOf(_)
ExportOf(msgs) ==
    IF msgs = <<>> THEN ""
    ELSE RoleLabel(msgs[1].role) \o ":\n" \o msgs[1].content \o "\n"
         \o (IF Len(msgs) > 1 THEN "\n" \o ExportOf(Tail(msgs)) ELSE "")

NotSystem(m) == m.role # "system"

\* C8: a run that ends with a non-empty conversation offers the export: one
\* "ROLE:\ncontent\n" block per non-system message in conversation order,
\* blocks separated by one more newline, ROLE being USER or ASSISTANT; the
\* conversation [user Hi, assistant Hello] exports as the text the
\* specification gives; a run without a turn or reset leaves messages as they
\* were.
C8_Transcript ==
    /\ messages # <<>> => transcript = Some(ExportOf(SelectSeq(messages, NotSystem)))
    /\ messages = <<>> => transcript = None
    /\ messages = <<UserEntry("Hi"), [role |-> "assistant", content |-> "Hello"]>> =>
        transcript = Some("USER:\nHi\n\nASSISTANT:\nHello\n")
    /\ event \in TemplateEvents \cup {"settings"} => messages = before

\* The two-message conversation of the specification's example was exported.
C8_Witness ==
    /\ messages = <<UserEntry("Hi"), [role |-> "assistant", content |-> "Hello"]>>
    /\ transcript = Some("USER:\nHi\n\nASSISTANT:\nHello\n")

ExampleForm ==
    [topik |-> "UAS", audiens |-> "Orang Tua", tanggal |-> <<2025, 6, 1>>,
     penandatangan |-> "Budi", gaya |-> "Formal", bilingual |-> FALSE]

\* C9: the prompt build_prompt_surat_edaran builds contains the topic, the
\* audience, the date, the signer and the style it was given, and contains the
\* bilingual clause exactly when the bilingual flag is set; for the inputs of
\* the specification's example it is the text below.
C9_SuratEdaran ==
    event = "surat_edaran" =>
        /\ Contains(pending_prompt, form.topik)
        /\ Contains(pending_prompt, form.audiens)
        /\ Contains(pending_prompt, DateStr(form.tanggal))
        /\ Contains(pending_prompt, form.penandatangan)
        /\ Contains(pending_prompt, form.gaya)
        /\ Contains(pending_prompt, BilingualNote) <=> form.bilingual
        /\ form = ExampleForm =>
            pending_prompt =
                "Susun draf Surat Edaran sekolah tentang 'UAS'.\n- Audiens: Orang Tua\n- Tanggal: 2025-06-01\n- Penandatangan: Budi\n- Gaya bahasa: Formal\n- Gunakan Bahasa Indonesia yang jelas dan formal.\nStrukturkan: Kop/Identitas, Nomor, Perihal, Salam pembuka, Isi utama (tujuan, rincian, waktu/tempat jika ada), Instruksi/harapan, Penutup, Tanda tangan, Tembusan (jika perlu). Sertakan placeholder yang jelas untuk nomor surat, lampiran, dan kontak."

\* The prompt of the specification's example was built, without the clause.
C9_Witness ==
    /\ event = "surat_edaran"
    /\ form = ExampleForm
    /\ Contains(pending_prompt, "2025-06-01")
    /\ ~Contains(pending_prompt, BilingualNote)

\* C10: after every run messages has even length and alternates user,
\* assistant, starting with user; no entry has the role system.
C10_Alternation ==
    /\ Len(messages) % 2 = 0
    /\ \A i \in 1..Len(messages) :
        messages[i].role = (IF i % 2 = 1 THEN "user" ELSE "assistant")

\* A conversation after a reset, holding a failed turn behind a turn.
C10_Witness ==
    /\ Len(messages) = 4
    /\ outcome = "raise"
    /\ event = "use"

====
